---- MODULE Spec2Model ----
(***************************************************************************)
(* Model of egile-agent-investment: the MCP transport client               *)
(* (mcp_client.py, InvestmentMCPClient), the plugin lifecycle               *)
(* (plugin.py, InvestmentPlugin.on_agent_start / on_agent_stop) and the     *)
(* report orchestrator (plugin.py, InvestmentPlugin.execute_task_direct).   *)
(*                                                                          *)
(* Python objects are modelled as a heap: `clients` is the sequence of      *)
(* InvestmentMCPClient instances ever constructed, `handles` the sequence   *)
(* of operating-system resources (httpx sessions, spawned processes) ever   *)
(* opened.  A reference is an index into the sequence, 0 is None.           *)
(*                                                                          *)
(* Exceptions are modelled by the name of the Python exception that the     *)
(* statement raises: dereferencing None raises AttributeError,              *)
(* raise_for_status raises HTTPStatusError, and so on.                      *)
(***************************************************************************)
EXTENDS Integers, Sequences, FiniteSets, TLC

VARIABLES
    clients,            \* heap of InvestmentMCPClient objects
    handles,            \* heap of sessions / processes ever opened
    use_mcp,            \* InvestmentPlugin.use_mcp
    mcp_transport,      \* InvestmentPlugin.mcp_transport
    plugin_client,      \* InvestmentPlugin._client (0 = None)
    investment_service, \* InvestmentPlugin._investment_service
    lastOp,             \* the last lifecycle / client call and how it ended
    task,               \* argument of execute_task_direct
    pc,                 \* position inside execute_task_direct
    matches,            \* local variable `matches`
    idx,                \* position of the running for-loop in `matches`
    report_parts,       \* local variable `report_parts`
    calls,              \* adapter calls issued by the running execute_task_direct
    failures,           \* exceptions swallowed (logged) by execute_task_direct
    fallback_applied,   \* whether re.findall(stock_pattern_eur, task) was evaluated
    result,             \* what execute_task_direct handed to its caller
    formatted           \* what the last portfolio formatter call computed

lifecycleVars == <<clients, handles, use_mcp, mcp_transport, plugin_client,
                   investment_service, lastOp>>
taskVars == <<task, pc, matches, idx, report_parts, calls, failures,
              fallback_applied, result>>
vars == <<clients, handles, use_mcp, mcp_transport, plugin_client,
          investment_service, lastOp, task, pc, matches, idx, report_parts,
          calls, failures, fallback_applied, result, formatted>>

----------------------------------------------------------------------------
(* Bounds *)

MaxClients == 2     \* InvestmentMCPClient objects constructed in one behaviour
MaxHandles == 2     \* sessions / processes opened in one behaviour
MaxMentions == 2    \* holding mentions in one task string
MaxParseMentions == 1   \* holding mentions in one task string of SpecParse
MaxHoldings == 2    \* holdings in the list the service's get_portfolio returns

----------------------------------------------------------------------------
(* mcp_client.py *)

\* The transport strings a client can be built with: the two supported ones
\* and one that connect() rejects.
Transports == {"sse", "stdio", "other"}

\* The names in the predefined tool list of list_tools.
ToolNames == {"add_to_portfolio", "get_portfolio", "analyze_stock",
              "should_sell", "find_buy_opportunities",
              "generate_portfolio_report"}

\* The (transport, command) pairs a caller builds a client with; command is
\* read by connect() on the stdio branch only.
ClientConfigs == {[transport |-> "sse", command |-> FALSE],
                  [transport |-> "stdio", command |-> FALSE],
                  [transport |-> "stdio", command |-> TRUE],
                  [transport |-> "other", command |-> FALSE]}

NoOp == [op |-> "none", client |-> 0, outcome |-> "none", requests |-> 0]

\* InvestmentMCPClient.__init__: both handles start as None.
NewClientObject(transport, command, byPlugin) ==
    [transport |-> transport, command |-> command,
     _client |-> 0, _process |-> 0,
     byPlugin |-> byPlugin, disconnected |-> FALSE]

\* What an HTTP round trip on an open session can end in: a 2xx answer with a
\* JSON body, a non-2xx answer (raise_for_status), a body that is not JSON
\* (response.json()), or no answer at all (timeout, connection refused).
HttpOutcomes == {"result", "HTTPStatusError", "JSONDecodeError", "RequestError"}

\* The effect of connect() on client i of heap cs with handle heap hs.
ConnectEffect(cs, hs, i) ==
    IF cs[i].transport = "sse" THEN
        [clients |-> [cs EXCEPT ![i]._client = Len(hs) + 1],
         handles |-> Append(hs, [kind |-> "session", live |-> TRUE, client |-> i]),
         outcome |-> "ok"]
    ELSE IF cs[i].transport = "stdio" THEN
        IF ~cs[i].command THEN
            [clients |-> cs, handles |-> hs, outcome |-> "ValueError"]
        ELSE
            [clients |-> [cs EXCEPT ![i]._process = Len(hs) + 1],
             handles |-> Append(hs, [kind |-> "process", live |-> TRUE, client |-> i]),
             outcome |-> "ok"]
    ELSE
        [clients |-> cs, handles |-> hs, outcome |-> "ValueError"]

\* disconnect() that closes the handles but keeps the references to them.
DisconnectEffect_KeepReferences(cs, hs, i) ==
    LET c  == cs[i]
        h1 == IF c._client # 0
                 THEN [hs EXCEPT ![c._client].live = FALSE] ELSE hs
        h2 == IF c._process # 0
                 THEN [h1 EXCEPT ![c._process].live = FALSE] ELSE h1
    IN  [clients |-> [cs EXCEPT ![i].disconnected =
                                    c.disconnected \/ c._client # 0 \/ c._process # 0],
         handles |-> h2,
         outcome |-> "ok"]

\* disconnect() without the `if self._process:` test: None.terminate().
DisconnectEffect_NoProcessTest(cs, hs, i) ==
    LET c  == cs[i]
        h1 == IF c._client # 0
                 THEN [hs EXCEPT ![c._client].live = FALSE] ELSE hs
    IN  IF c._process = 0 THEN
            [clients |-> [cs EXCEPT ![i]._client = 0,
                                    ![i].disconnected = c.disconnected \/ c._client # 0],
             handles |-> h1,
             outcome |-> "AttributeError"]
        ELSE
            [clients |-> [cs EXCEPT ![i]._client = 0, ![i]._process = 0,
                                    ![i].disconnected = TRUE],
             handles |-> [h1 EXCEPT ![c._process].live = FALSE],
             outcome |-> "ok"]

\* The effect of disconnect() on client i.
DisconnectEffect(cs, hs, i) ==
    LET c  == cs[i]
        h1 == IF c._client # 0
                 THEN [hs EXCEPT ![c._client].live = FALSE] ELSE hs
        h2 == IF c._process # 0
                 THEN [h1 EXCEPT ![c._process].live = FALSE] ELSE h1
    IN  [clients |-> [cs EXCEPT ![i]._client = 0, ![i]._process = 0,
                                ![i].disconnected =
                                    c.disconnected \/ c._client # 0 \/ c._process # 0],
         handles |-> h2,
         outcome |-> "ok"]

\* A caller constructs a client of its own: InvestmentMCPClient(...).
NewClient(transport, command) ==
    /\ Len(clients) < MaxClients
    /\ clients' = Append(clients, NewClientObject(transport, command, FALSE))
    /\ lastOp' = [op |-> "init", client |-> Len(clients) + 1,
                  outcome |-> "ok", requests |-> 0]
    /\ UNCHANGED <<handles, use_mcp, mcp_transport, plugin_client,
                   investment_service>>
    /\ UNCHANGED taskVars
    /\ UNCHANGED formatted

\* await client.connect()
Connect(i) ==
    /\ Len(handles) < MaxHandles
    /\ LET e == ConnectEffect(clients, handles, i)
       IN  /\ clients' = e.clients
           /\ handles' = e.handles
           /\ lastOp' = [op |-> "connect", client |-> i,
                         outcome |-> e.outcome, requests |-> 0]
    /\ UNCHANGED <<use_mcp, mcp_transport, plugin_client, investment_service>>
    /\ UNCHANGED taskVars
    /\ UNCHANGED formatted

\* await client.disconnect()
Disconnect(i) ==
    /\ LET e == DisconnectEffect(clients, handles, i)
       IN  /\ clients' = e.clients
           /\ handles' = e.handles
           /\ lastOp' = [op |-> "disconnect", client |-> i,
                         outcome |-> e.outcome, requests |-> 0]
    /\ UNCHANGED <<use_mcp, mcp_transport, plugin_client, investment_service>>
    /\ UNCHANGED taskVars
    /\ UNCHANGED formatted

\* await client.list_tools()
ListTools(i) ==
    /\ IF clients[i].transport = "sse" THEN
           IF clients[i]._client = 0 THEN
               \* self._client is None: None.get(...)
               lastOp' = [op |-> "list_tools", client |-> i,
                          outcome |-> "AttributeError", requests |-> 0]
           ELSE
               \E o \in HttpOutcomes :
                   lastOp' = [op |-> "list_tools", client |-> i,  outcome |-> o, requests |-> 1]
       ELSE
           \* the predefined list, whatever the state of the client
           lastOp' = [op |-> "list_tools", client |-> i,
                      outcome |-> "result", requests |-> 0]
    /\ UNCHANGED <<clients, handles, use_mcp, mcp_transport, plugin_client,
                   investment_service>>
    /\ UNCHANGED taskVars
    /\ UNCHANGED formatted

\* call_tool that sends the request a second time after a non-2xx answer.
CallTool_RetryOnce(i) ==
    /\ IF clients[i].transport = "sse" THEN
           IF clients[i]._client = 0 THEN
               lastOp' = [op |-> "call_tool", client |-> i,
                          outcome |-> "AttributeError", requests |-> 0]
           ELSE
               \E o \in HttpOutcomes :
                   IF o = "HTTPStatusError" THEN
                       \E o2 \in HttpOutcomes :
                           lastOp' = [op |-> "call_tool", client |-> i,
                                      outcome |-> o2, requests |-> 2]
                   ELSE
                       lastOp' = [op |-> "call_tool", client |-> i,
                                  outcome |-> o, requests |-> 1]
       ELSE
           lastOp' = [op |-> "call_tool", client |-> i,
                      outcome |-> "NotImplementedError", requests |-> 0]
    /\ UNCHANGED <<clients, handles, use_mcp, mcp_transport, plugin_client,
                   investment_service>>
    /\ UNCHANGED taskVars
    /\ UNCHANGED formatted

\* await client.call_tool(name, arguments).  The tool name and the arguments
\* only travel in the request body; no branch of call_tool reads them.
CallTool(i) ==
    /\ IF clients[i].transport = "sse" THEN
           IF clients[i]._client = 0 THEN
               \* self._client is None: None.post(...)
               lastOp' = [op |-> "call_tool", client |-> i,
                          outcome |-> "AttributeError", requests |-> 0]
           ELSE
               \E o \in HttpOutcomes :
                   lastOp' = [op |-> "call_tool", client |-> i,  outcome |-> o, requests |-> 1]
       ELSE
           lastOp' = [op |-> "call_tool", client |-> i,
                      outcome |-> "NotImplementedError", requests |-> 0]
    /\ UNCHANGED <<clients, handles, use_mcp, mcp_transport, plugin_client,
                   investment_service>>
    /\ UNCHANGED taskVars
    /\ UNCHANGED formatted

----------------------------------------------------------------------------
(* plugin.py: lifecycle *)

\* A holding as the in-process service keeps it (amounts in cents, shares in
\* hundredths).
Holding(ticker, shares, price) ==
    [ticker |-> ticker, shares |-> shares, purchase_price |-> price]

\* The portfolios a freshly constructed InvestmentService() can hold: the
\* service belongs to another package and may load a stored portfolio.
InitialPortfolios == {<<>>, <<Holding("MSFT", 1000, 30000)>>}

\* self._investment_service = None
NoService == [present |-> FALSE, portfolio |-> <<>>]

\* await plugin.on_agent_start(agent)
OnAgentStart ==
    /\ pc = "idle"
    /\ IF use_mcp THEN
           /\ Len(clients) < MaxClients
           /\ Len(handles) < MaxHandles
           /\ LET i  == Len(clients) + 1
                  cs == Append(clients, NewClientObject(mcp_transport, TRUE, TRUE))
                  e  == ConnectEffect(cs, handles, i)
              IN  /\ clients' = e.clients
                  /\ handles' = e.handles
                  /\ plugin_client' = i
                  /\ lastOp' = [op |-> "on_agent_start", client |-> i,    outcome |-> e.outcome, requests |-> 0]
           /\ UNCHANGED investment_service
       ELSE
           /\ \E p \in InitialPortfolios :
                  investment_service' = [present |-> TRUE, portfolio |-> p]
           /\ lastOp' = [op |-> "on_agent_start", client |-> 0,
                         outcome |-> "ok", requests |-> 0]
           /\ UNCHANGED <<clients, handles, plugin_client>>
    /\ UNCHANGED <<use_mcp, mcp_transport>>
    /\ UNCHANGED taskVars
    /\ UNCHANGED formatted

\* await plugin.on_agent_stop(agent)
OnAgentStop ==
    /\ pc = "idle"
    /\ IF plugin_client # 0 THEN
           LET e == DisconnectEffect(clients, handles, plugin_client)
           IN  /\ clients' = e.clients
               /\ handles' = e.handles
               /\ lastOp' = [op |-> "on_agent_stop", client |-> plugin_client,
                             outcome |-> e.outcome, requests |-> 0]
       ELSE
           /\ lastOp' = [op |-> "on_agent_stop", client |-> 0,
                         outcome |-> "ok", requests |-> 0]
           /\ UNCHANGED <<clients, handles>>
    /\ UNCHANGED <<use_mcp, mcp_transport, plugin_client, investment_service>>
    /\ UNCHANGED taskVars
    /\ UNCHANGED formatted

----------------------------------------------------------------------------
(* plugin.py: the text of a task *)

\* A task is a string or, when the caller passes no string, None.  A string is
\* modelled by the sequence of holding mentions in it.  A mention is a piece
\* of text "<shares> <company> (<TICKER>) shares @ ..." whose amounts are
\* texts over the characters that [\d.]+ accepts; eur is the text after the
\* euro sign and usd the text inside "($...)", <<>> when that part is absent.
Mention(shares, ticker, eur, usd) ==
    [shares |-> shares, company |-> "Co", ticker |-> ticker,
     eur |-> eur, usd |-> usd]

DigitValue(c) ==
    CASE c = "0" -> 0 [] c = "1" -> 1 [] c = "2" -> 2 [] c = "3" -> 3
      [] c = "4" -> 4 [] c = "5" -> 5 [] c = "6" -> 6 [] c = "7" -> 7
      [] c = "8" -> 8 [] c = "9" -> 9

RECURSIVE DigitsValue(_)
\* The integer written by a sequence of digits (0 for the empty one).
DigitsValue(ds) ==
    IF ds = <<>> THEN 0
    ELSE 10 * DigitsValue(SubSeq(ds, 1, Len(ds) - 1)) + DigitValue(ds[Len(ds)])

\* Raised by float(text).
ValueError == -1

\* float(text) for a text over digits and dots, in hundredths: a number when
\* the text has at least one digit and at most one dot, ValueError otherwise.
Float(text) ==
    LET dots   == SelectSeq(text, LAMBDA c : c = ".")
        digits == SelectSeq(text, LAMBDA c : c # ".")
    IN  IF Len(dots) > 1 \/ Len(digits) = 0 THEN ValueError
        ELSE IF Len(dots) = 0 THEN 100 * DigitsValue(text)
        ELSE LET d    == CHOOSE k \in 1..Len(text) : text[k] = "."
                 int  == SubSeq(text, 1, d - 1)
                 frac == SubSeq(text, d + 1, Len(text))
                 two  == SubSeq(frac \o <<"0", "0">>, 1, 2)
             IN  100 * DigitsValue(int) + DigitsValue(two)

\* One element of the list re.findall returns: the four groups.
Candidate(m, price) ==
    [shares |-> m.shares, company |-> m.company, ticker |-> m.ticker,
     price |-> price]

RECURSIVE FindAllDual(_)
\* re.findall(stock_pattern, task): the mentions that carry both the euro
\* amount and the "($...)" amount; the price group is the dollar amount.
FindAllDual(ms) ==
    IF ms = <<>> THEN <<>>
    ELSE LET m == Head(ms)
         IN  (IF m.eur # <<>> /\ m.usd # <<>>
                 THEN <<Candidate(m, m.usd)>> ELSE <<>>)
             \o FindAllDual(Tail(ms))

RECURSIVE FindAllEur(_)
\* re.findall(stock_pattern_eur, task): the mentions that carry the euro
\* amount, whatever follows it; the price group is the euro amount.
FindAllEur(ms) ==
    IF ms = <<>> THEN <<>>
    ELSE LET m == Head(ms)
         IN  (IF m.eur # <<>> THEN <<Candidate(m, m.eur)>> ELSE <<>>)
             \o FindAllEur(Tail(ms))

----------------------------------------------------------------------------
(* plugin.py: execute_task_direct *)

Fragment(kind, v) == [kind |-> kind, v |-> v]

Sep == Fragment("sep", "\n\n")

\* An adapter method reaches the in-process service through
\* self._investment_service, in either mode.
Route == IF investment_service.present THEN "service" ELSE "none"

\* A logged exception: the stage, the loop position (0 outside a loop), the
\* ticker and the exception.
Failure(stage, index, ticker, exc) ==
    [stage |-> stage, index |-> index, ticker |-> ticker, exc |-> exc]

\* The except clause around the whole body (lines 498-500): log the exception
\* and raise RuntimeError.
Fatal(stage, index, ticker, exc) ==
    /\ failures' = Append(failures, Failure(stage, index, ticker, exc))
    /\ pc' = "done"
    /\ result' = [kind |-> "RuntimeError", parts |-> <<>>]

\* Parsing that applies the fallback pattern whatever the first one found.
Parse_AlwaysFallback(t) ==
    /\ pc = "idle"
    /\ task' = t
    /\ report_parts' = <<Fragment("title", "# Investment Portfolio Analysis Report"),
                         Fragment("timestamp", "Generated on")>>
    /\ IF ~t.isStr THEN
           /\ Fatal("parse", 0, "", "TypeError")
           /\ UNCHANGED <<matches, idx, fallback_applied>>
       ELSE
           LET found == FindAllDual(t.mentions) \o FindAllEur(t.mentions)
           IN  /\ matches' = found
               /\ fallback_applied' = TRUE
               /\ idx' = 1
               /\ pc' = IF found = <<>> THEN "snapshot" ELSE "add"
               /\ UNCHANGED <<result, failures>>
    /\ UNCHANGED calls
    /\ UNCHANGED lifecycleVars
    /\ UNCHANGED formatted

\* Lines 417-437: the two title fragments and the parsing of the task.
Parse(t) ==
    /\ pc = "idle"
    /\ task' = t
    /\ report_parts' = <<Fragment("title", "# Investment Portfolio Analysis Report"),
                         Fragment("timestamp", "Generated on")>>
    /\ IF ~t.isStr THEN
           \* re.findall(stock_pattern, None) raises TypeError
           /\ Fatal("parse", 0, "", "TypeError")
           /\ UNCHANGED <<matches, idx, fallback_applied>>
       ELSE
           LET first == FindAllDual(t.mentions)
               found == IF first = <<>> THEN FindAllEur(t.mentions) ELSE first
           IN  /\ matches' = found
               /\ fallback_applied' = (first = <<>>)
               /\ idx' = 1
               /\ pc' = IF found = <<>> THEN "snapshot" ELSE "add"
               /\ UNCHANGED <<result, failures>>
    /\ UNCHANGED calls
    /\ UNCHANGED lifecycleVars
    /\ UNCHANGED formatted

\* Lines 440-445: one iteration of the loop that adds the holdings.
AddStep ==
    /\ pc = "add"
    /\ LET c      == matches[idx]
           shares == Float(c.shares)
           price  == Float(c.price)
       IN  IF shares = ValueError \/ price = ValueError THEN
               \* float(...) raised before the call was made
               /\ failures' = Append(failures, Failure("add", idx, c.ticker, "ValueError"))
               /\ UNCHANGED <<calls, investment_service>>
           ELSE
               /\ calls' = Append(calls, [op |-> "add_to_portfolio", ticker |-> c.ticker,
                                          route |-> Route, shares |-> shares,
                                          price |-> price])
               /\ IF ~investment_service.present THEN
                      /\ failures' = Append(failures,
                                            Failure("add", idx, c.ticker, "AttributeError"))
                      /\ UNCHANGED investment_service
                  ELSE
                      \/ /\ investment_service' =
                                [investment_service EXCEPT !.portfolio =
                                    Append(@, Holding(c.ticker, shares, price))]
                         /\ UNCHANGED failures
                      \/ /\ failures' = Append(failures,
                                               Failure("add", idx, c.ticker, "ServiceError"))
                         /\ UNCHANGED investment_service
    /\ IF idx = Len(matches)
          THEN pc' = "snapshot" /\ idx' = 1
          ELSE pc' = "add" /\ idx' = idx + 1
    /\ UNCHANGED <<task, matches, report_parts, fallback_applied, result>>
    /\ UNCHANGED <<clients, handles, use_mcp, mcp_transport, plugin_client, lastOp>>
    /\ UNCHANGED formatted

\* _get_portfolio formats the list the service returns.
PortfolioInfo(portfolio) ==
    IF portfolio = <<>> THEN "Portfolio is empty." ELSE "Current Portfolio"

\* Lines 448-452: the portfolio snapshot; no try surrounds the call.
Snapshot ==
    /\ pc = "snapshot"
    /\ calls' = Append(calls, [op |-> "get_portfolio", ticker |-> "",
                               route |-> Route, shares |-> 0, price |-> 0])
    /\ IF ~investment_service.present THEN
           /\ Fatal("snapshot", 0, "", "AttributeError")
           /\ UNCHANGED report_parts
       ELSE
           \/ /\ report_parts' = report_parts \o
                     <<Fragment("heading", "## Current Portfolio"),
                       Fragment("portfolio", PortfolioInfo(investment_service.portfolio)),
                       Sep>>
              /\ pc' = "analysis_heading"
              /\ UNCHANGED <<result, failures>>
           \/ /\ Fatal("snapshot", 0, "", "ServiceError")
              /\ UNCHANGED report_parts
    /\ UNCHANGED <<task, matches, idx, fallback_applied>>
    /\ UNCHANGED lifecycleVars
    /\ UNCHANGED formatted

\* Line 455.
AnalysisHeading ==
    /\ pc = "analysis_heading"
    /\ report_parts' = Append(report_parts,
                              Fragment("heading", "## Individual Stock Analysis"))
    /\ pc' = IF matches = <<>> THEN "sell_heading" ELSE "analyze"
    /\ idx' = 1
    /\ UNCHANGED <<task, matches, calls, failures, fallback_applied, result>>
    /\ UNCHANGED lifecycleVars
    /\ UNCHANGED formatted

\* The analysis loop without its try / except: a failure reaches the except
\* clause around the whole body.
AnalyzeStep_NoTry ==
    /\ pc = "analyze"
    /\ LET ticker == matches[idx].ticker
       IN  /\ calls' = Append(calls, [op |-> "analyze_stock", ticker |-> ticker,
                                      route |-> Route, shares |-> 0, price |-> 0])
           /\ IF ~investment_service.present THEN
                  /\ Fatal("analyze", idx, ticker, "AttributeError")
                  /\ UNCHANGED <<report_parts, idx>>
              ELSE
                  \/ /\ report_parts' = report_parts \o
                            <<Fragment("analysis", ticker), Sep>>
                     /\ IF idx = Len(matches)
                           THEN pc' = "sell_heading" /\ idx' = 1
                           ELSE pc' = "analyze" /\ idx' = idx + 1
                     /\ UNCHANGED <<failures, result>>
                  \/ /\ Fatal("analyze", idx, ticker, "ServiceError")
                     /\ UNCHANGED <<report_parts, idx>>
    /\ UNCHANGED <<task, matches, fallback_applied>>
    /\ UNCHANGED lifecycleVars
    /\ UNCHANGED formatted

\* The analysis loop walking `matches` from its end.
AnalyzeStep_Reversed ==
    /\ pc = "analyze"
    /\ LET pos    == Len(matches) - idx + 1
           ticker == matches[pos].ticker
       IN  /\ calls' = Append(calls, [op |-> "analyze_stock", ticker |-> ticker,
                                      route |-> Route, shares |-> 0, price |-> 0])
           /\ IF ~investment_service.present THEN
                  /\ failures' = Append(failures,
                                        Failure("analyze", pos, ticker, "AttributeError"))
                  /\ UNCHANGED report_parts
              ELSE
                  \/ /\ report_parts' = report_parts \o
                            <<Fragment("analysis", ticker), Sep>>
                     /\ UNCHANGED failures
                  \/ /\ failures' = Append(failures,
                                           Failure("analyze", pos, ticker, "ServiceError"))
                     /\ UNCHANGED report_parts
    /\ IF idx = Len(matches)
          THEN pc' = "sell_heading" /\ idx' = 1
          ELSE pc' = "analyze" /\ idx' = idx + 1
    /\ UNCHANGED <<task, matches, fallback_applied, result>>
    /\ UNCHANGED lifecycleVars
    /\ UNCHANGED formatted

\* The analysis loop asking for the sell recommendation of a ticker right
\* after its analysis.
AnalyzeStep_Interleaved ==
    /\ pc = "analyze"
    /\ LET ticker == matches[idx].ticker
       IN  /\ calls' = calls \o
                  <<[op |-> "analyze_stock", ticker |-> ticker,
                     route |-> Route, shares |-> 0, price |-> 0],
                    [op |-> "should_sell", ticker |-> ticker,
                     route |-> Route, shares |-> 0, price |-> 0]>>
           /\ IF ~investment_service.present THEN
                  /\ failures' = Append(failures,
                                        Failure("analyze", idx, ticker, "AttributeError"))
                  /\ UNCHANGED report_parts
              ELSE
                  \/ /\ report_parts' = report_parts \o
                            <<Fragment("analysis", ticker), Sep>>
                     /\ UNCHANGED failures
                  \/ /\ failures' = Append(failures,
                                           Failure("analyze", idx, ticker, "ServiceError"))
                     /\ UNCHANGED report_parts
    /\ IF idx = Len(matches)
          THEN pc' = "sell_heading" /\ idx' = 1
          ELSE pc' = "analyze" /\ idx' = idx + 1
    /\ UNCHANGED <<task, matches, fallback_applied, result>>
    /\ UNCHANGED lifecycleVars
    /\ UNCHANGED formatted

\* Lines 456-463: one iteration of the analysis loop.
AnalyzeStep ==
    /\ pc = "analyze"
    /\ LET ticker == matches[idx].ticker
       IN  /\ calls' = Append(calls, [op |-> "analyze_stock", ticker |-> ticker,
                                      route |-> Route, shares |-> 0, price |-> 0])
           /\ IF ~investment_service.present THEN
                  /\ failures' = Append(failures,
                                        Failure("analyze", idx, ticker, "AttributeError"))
                  /\ UNCHANGED report_parts
              ELSE
                  \/ /\ report_parts' = report_parts \o
                            <<Fragment("analysis", ticker), Sep>>
                     /\ UNCHANGED failures
                  \/ /\ failures' = Append(failures,
                                           Failure("analyze", idx, ticker, "ServiceError"))
                     /\ UNCHANGED report_parts
    /\ IF idx = Len(matches)
          THEN pc' = "sell_heading" /\ idx' = 1
          ELSE pc' = "analyze" /\ idx' = idx + 1
    /\ UNCHANGED <<task, matches, fallback_applied, result>>
    /\ UNCHANGED lifecycleVars
    /\ UNCHANGED formatted

\* The sell heading followed by a placeholder section when nothing was
\* extracted.
SellHeading_Placeholder ==
    /\ pc = "sell_heading"
    /\ report_parts' =
           IF matches = <<>>
              THEN report_parts \o <<Fragment("heading", "## Sell Recommendations"),
                                     Fragment("sell", "none")>>
              ELSE Append(report_parts, Fragment("heading", "## Sell Recommendations"))
    /\ pc' = IF matches = <<>> THEN "buy" ELSE "sell"
    /\ idx' = 1
    /\ UNCHANGED <<task, matches, calls, failures, fallback_applied, result>>
    /\ UNCHANGED lifecycleVars
    /\ UNCHANGED formatted

\* Line 466.
SellHeading ==
    /\ pc = "sell_heading"
    /\ report_parts' = Append(report_parts,
                              Fragment("heading", "## Sell Recommendations"))
    /\ pc' = IF matches = <<>> THEN "buy" ELSE "sell"
    /\ idx' = 1
    /\ UNCHANGED <<task, matches, calls, failures, fallback_applied, result>>
    /\ UNCHANGED lifecycleVars
    /\ UNCHANGED formatted

\* Lines 467-473: one iteration of the sell-recommendation loop.
SellStep ==
    /\ pc = "sell"
    /\ LET ticker == matches[idx].ticker
       IN  /\ calls' = Append(calls, [op |-> "should_sell", ticker |-> ticker,
                                      route |-> Route, shares |-> 0, price |-> 0])
           /\ IF ~investment_service.present THEN
                  /\ failures' = Append(failures,
                                        Failure("sell", idx, ticker, "AttributeError"))
                  /\ UNCHANGED report_parts
              ELSE
                  \/ /\ report_parts' = Append(report_parts, Fragment("sell", ticker))
                     /\ UNCHANGED failures
                  \/ /\ failures' = Append(failures,
                                           Failure("sell", idx, ticker, "ServiceError"))
                     /\ UNCHANGED report_parts
    /\ IF idx = Len(matches)
          THEN pc' = "buy" /\ idx' = 1
          ELSE pc' = "sell" /\ idx' = idx + 1
    /\ UNCHANGED <<task, matches, fallback_applied, result>>
    /\ UNCHANGED lifecycleVars
    /\ UNCHANGED formatted

\* What _find_buy_opportunities returns for the list the service returns.
BuyTexts == {"No buy opportunities found matching your criteria.",
             "Buy Opportunities"}

\* The buy stage appending its heading before the call is made.
BuyStep_HeadingFirst ==
    /\ pc = "buy"
    /\ calls' = Append(calls, [op |-> "find_buy_opportunities", ticker |-> "",
                               route |-> Route, shares |-> 0, price |-> 0])
    /\ IF ~investment_service.present THEN
           /\ failures' = Append(failures, Failure("buy", 0, "", "AttributeError"))
           /\ report_parts' = Append(report_parts,
                                     Fragment("heading", "## Buy Opportunities"))
       ELSE
           \/ \E text \in BuyTexts :
                  /\ report_parts' = report_parts \o
                         <<Fragment("heading", "## Buy Opportunities"),
                           Fragment("buy", text), Sep>>
                  /\ UNCHANGED failures
           \/ /\ failures' = Append(failures, Failure("buy", 0, "", "ServiceError"))
              /\ report_parts' = Append(report_parts,
                                        Fragment("heading", "## Buy Opportunities"))
    /\ pc' = "summary"
    /\ UNCHANGED <<task, matches, idx, fallback_applied, result>>
    /\ UNCHANGED lifecycleVars
    /\ UNCHANGED formatted

\* Lines 476-483: the buy opportunities.
BuyStep ==
    /\ pc = "buy"
    /\ calls' = Append(calls, [op |-> "find_buy_opportunities", ticker |-> "",
                               route |-> Route, shares |-> 0, price |-> 0])
    /\ IF ~investment_service.present THEN
           /\ failures' = Append(failures, Failure("buy", 0, "", "AttributeError"))
           /\ UNCHANGED report_parts
       ELSE
           \/ \E text \in BuyTexts :
                  /\ report_parts' = report_parts \o
                         <<Fragment("heading", "## Buy Opportunities"),
                           Fragment("buy", text), Sep>>
                  /\ UNCHANGED failures
           \/ /\ failures' = Append(failures, Failure("buy", 0, "", "ServiceError"))
              /\ UNCHANGED report_parts
    /\ pc' = "summary"
    /\ UNCHANGED <<task, matches, idx, fallback_applied, result>>
    /\ UNCHANGED lifecycleVars
    /\ UNCHANGED formatted

\* Lines 486-496: the summary, the join and the return.
SummaryStep ==
    /\ pc = "summary"
    /\ calls' = Append(calls, [op |-> "generate_portfolio_report", ticker |-> "",
                               route |-> Route, shares |-> 0, price |-> 0])
    /\ IF ~investment_service.present THEN
           /\ failures' = Append(failures, Failure("summary", 0, "", "AttributeError"))
           /\ UNCHANGED report_parts
       ELSE
           \/ /\ report_parts' = report_parts \o
                     <<Fragment("heading", "## Portfolio Summary"),
                       Fragment("summary", "Portfolio Report")>>
              /\ UNCHANGED failures
           \/ /\ failures' = Append(failures, Failure("summary", 0, "", "ServiceError"))
              /\ UNCHANGED report_parts
    /\ pc' = "done"
    /\ result' = [kind |-> "report", parts |-> report_parts']
    /\ UNCHANGED <<task, matches, idx, fallback_applied>>
    /\ UNCHANGED lifecycleVars
    /\ UNCHANGED formatted

----------------------------------------------------------------------------
(* plugin.py: the portfolio formatters *)

\* One element of the list get_portfolio() returns, with the two fields the
\* totals are computed from (amounts in whole dollars).
HoldingView(ticker, purchase_value, current_value) ==
    [ticker |-> ticker, purchase_value |-> purchase_value,
     current_value |-> current_value]

\* a / b rounded to the nearest integer, for b > 0: the rounding of ":.2f".
RoundDiv(a, b) ==
    IF a >= 0 THEN (2 * a + b) \div (2 * b)
    ELSE -((2 * (-a) + b) \div (2 * b))

RECURSIVE AccumulateTotals(_, _, _)
\* Lines 142-153: the loop that adds up total_value and total_cost.
AccumulateTotals(view, total_value, total_cost) ==
    IF view = <<>> THEN [total_value |-> total_value, total_cost |-> total_cost]
    ELSE AccumulateTotals(Tail(view),
                          total_value + Head(view).current_value,
                          total_cost + Head(view).purchase_value)

\* The totals loop adding the current value to the cost as well.
PortfolioTotals_CostFromValue(view) ==
    LET t   == AccumulateTotals(view, 0, 0)
        pl  == t.total_value - t.total_value
        pct == IF t.total_value > 0 THEN RoundDiv(pl * 10000, t.total_value) ELSE 0
    IN  [total_value |-> t.total_value, total_cost |-> t.total_value,
         total_pl |-> pl, total_pl_pct |-> pct]

\* Lines 142-158: the totals of _get_portfolio; the percentage is kept in
\* hundredths of a percent, as "+.2f" prints it.
PortfolioTotals(view) ==
    LET t   == AccumulateTotals(view, 0, 0)
        pl  == t.total_value - t.total_cost
        pct == IF t.total_cost > 0 THEN RoundDiv(pl * 10000, t.total_cost) ELSE 0
    IN  [total_value |-> t.total_value, total_cost |-> t.total_cost,
         total_pl |-> pl, total_pl_pct |-> pct]

RECURSIVE SumCurrentValue(_)
\* sum(h['current_value'] for h in portfolio)
SumCurrentValue(view) ==
    IF view = <<>> THEN 0
    ELSE Head(view).current_value + SumCurrentValue(Tail(view))

RECURSIVE SumPurchaseValue(_)
\* sum(h['purchase_value'] for h in portfolio)
SumPurchaseValue(view) ==
    IF view = <<>> THEN 0
    ELSE Head(view).purchase_value + SumPurchaseValue(Tail(view))

\* Lines 289-293: the totals of _format_portfolio_as_markdown.
MarkdownTotals(view) ==
    LET total_value == SumCurrentValue(view)
        total_cost  == SumPurchaseValue(view)
        pl          == total_value - total_cost
        pct         == IF total_cost > 0 THEN RoundDiv(pl * 10000, total_cost) ELSE 0
    IN  [total_value |-> total_value, total_cost |-> total_cost,
         total_pl |-> pl, total_pl_pct |-> pct]

\* The record of a formatter call that produced no totals.
FormatEnded(op, view, status) ==
    [op |-> op, view |-> view, status |-> status, total_value |-> 0,
     total_cost |-> 0, total_pl |-> 0, total_pl_pct |-> 0]

\* The record of a formatter call that printed the totals t.
FormatTotals(op, view, t) ==
    [op |-> op, view |-> view, status |-> "ok", total_value |-> t.total_value,
     total_cost |-> t.total_cost, total_pl |-> t.total_pl,
     total_pl_pct |-> t.total_pl_pct]

\* await plugin._get_portfolio(), the service returning the list `view` or
\* raising.
GetPortfolio(view) ==
    /\ pc = "idle"
    /\ IF ~investment_service.present THEN
           formatted' = FormatEnded("get_portfolio", <<>>, "AttributeError")
       ELSE
           \/ formatted' = IF view = <<>>
                              THEN FormatEnded("get_portfolio", view, "empty")
                              ELSE FormatTotals("get_portfolio", view,
                                                PortfolioTotals(view))
           \/ formatted' = FormatEnded("get_portfolio", <<>>, "ServiceError")
    /\ UNCHANGED lifecycleVars
    /\ UNCHANGED taskVars

\* await plugin._format_portfolio_as_markdown(include_buy_opportunities), the
\* service returning the list `view` or raising.  A failing should_sell is
\* skipped inside the loop (lines 318-332); find_buy_opportunities is called
\* without a try (lines 338-342).
FormatPortfolioAsMarkdown(view, include_buy_opportunities) ==
    /\ pc = "idle"
    /\ IF ~investment_service.present THEN
           formatted' = FormatEnded("format_portfolio_as_markdown", <<>>,
                                    "AttributeError")
       ELSE
           \/ formatted' =
                  IF view = <<>>
                     THEN FormatEnded("format_portfolio_as_markdown", view, "empty")
                     ELSE FormatTotals("format_portfolio_as_markdown", view,
                                       MarkdownTotals(view))
           \/ /\ view = <<>> \/ include_buy_opportunities
              /\ formatted' = FormatEnded("format_portfolio_as_markdown", <<>>,
                                          "ServiceError")
    /\ UNCHANGED lifecycleVars
    /\ UNCHANGED taskVars

----------------------------------------------------------------------------
(* Specifications *)

\* No formatter has run yet.
NoFormat == [op |-> "none", view |-> <<>>, status |-> "none", total_value |-> 0,
             total_cost |-> 0, total_pl |-> 0, total_pl_pct |-> 0]

NoTask == [isStr |-> TRUE, mentions |-> <<>>]
NoResult == [kind |-> "none", parts |-> <<>>]

\* InvestmentPlugin.__init__ with any use_mcp and mcp_transport; no client
\* exists yet and execute_task_direct has not been called.
Init ==
    /\ clients = <<>>
    /\ handles = <<>>
    /\ use_mcp \in BOOLEAN
    /\ mcp_transport \in Transports
    /\ plugin_client = 0
    /\ investment_service = NoService
    /\ lastOp = NoOp
    /\ task = NoTask
    /\ pc = "idle"
    /\ matches = <<>>
    /\ idx = 0
    /\ report_parts = <<>>
    /\ calls = <<>>
    /\ failures = <<>>
    /\ fallback_applied = FALSE
    /\ result = NoResult
    /\ formatted = NoFormat

\* The client and the plugin lifecycle, driven by any caller.
NextClient ==
    \/ \E k \in ClientConfigs : NewClient(k.transport, k.command)
    \/ \E i \in DOMAIN clients : Connect(i)
    \/ \E i \in DOMAIN clients : Disconnect(i)
    \/ \E i \in DOMAIN clients : ListTools(i)
    \/ \E i \in DOMAIN clients : CallTool(i)
    \/ OnAgentStart
    \/ OnAgentStop

SpecClient == Init /\ [][NextClient]_vars

\* The mentions the tasks of SpecTask are written with.
TaskMentions ==
    {Mention(<<"2", "3">>, "TSLA", <<"1", "8", "7", ".", "6">>, <<"2", "1", "8", ".", "5", "5">>),
     Mention(<<"5">>, "AAPL", <<"9", "0">>, <<"1", "0", "0">>),
     Mention(<<"0">>, "ZZZZ", <<"1">>, <<"1", ".", "2", ".", "3">>),
     Mention(<<"7">>, "MSFT", <<"3", "0", "0", ".", "5">>, <<>>),
     Mention(<<"4">>, "NVDA", <<>>, <<"5", "0">>)}

RECURSIVE SeqsUpTo(_, _)
\* The sequences over S of length at most n.
SeqsUpTo(S, n) ==
    IF n = 0 THEN {<<>>}
    ELSE LET shorter == SeqsUpTo(S, n - 1)
         IN  shorter \cup {Append(q, x) : q \in {r \in shorter : Len(r) = n - 1}, x \in S}

\* The arguments execute_task_direct is called with.
Tasks ==
    {[isStr |-> FALSE, mentions |-> <<>>]}
        \cup {[isStr |-> TRUE, mentions |-> ms] : ms \in SeqsUpTo(TaskMentions, MaxMentions)}

\* A plugin built with the default transport and either mode.
InitTask ==
    /\ Init
    /\ mcp_transport = "sse"

\* One execute_task_direct call on a plugin that was started or not.
NextTask ==
    \/ OnAgentStart
    \/ \E t \in Tasks : Parse(t)
    \/ AddStep
    \/ Snapshot
    \/ AnalysisHeading
    \/ AnalyzeStep
    \/ SellHeading
    \/ SellStep
    \/ BuyStep
    \/ SummaryStep

SpecTask == InitTask /\ [][NextTask]_vars

\* The share texts (\d+) and the price texts ([\d.]+) the tasks of SpecParse
\* are written with: zero, a number, and texts float() rejects.
ShareTexts == {<<"0">>, <<"5">>}
PriceTexts == {<<"0">>, <<".">>, <<"1", ".", "2", ".", "3">>, <<"2", ".", "5">>}

\* Mentions with every share text and price text, in the dual-currency and
\* in the euro-only form.
ParseMentions ==
    {Mention(s, "TSLA", <<"2">>, u) : s \in ShareTexts, u \in PriceTexts}
        \cup {Mention(s, "TSLA", e, <<>>) : s \in ShareTexts, e \in PriceTexts}

ParseTasks ==
    {[isStr |-> TRUE, mentions |-> ms] : ms \in SeqsUpTo(ParseMentions, MaxParseMentions)}

\* One execute_task_direct call on a short task with any amounts.
NextParse ==
    \/ OnAgentStart
    \/ \E t \in ParseTasks : Parse(t)
    \/ AddStep
    \/ Snapshot
    \/ AnalysisHeading
    \/ AnalyzeStep
    \/ SellHeading
    \/ SellStep
    \/ BuyStep
    \/ SummaryStep

SpecParse == InitTask /\ [][NextParse]_vars

\* The purchase values and current values of the holdings the service
\* reports, in whole dollars.
PurchaseValues == {0, 1500}
CurrentValues == {0, 1200, 1800}

\* The lists get_portfolio() returns in SpecTotals.
Views ==
    SeqsUpTo({HoldingView("MSFT", p, c) : p \in PurchaseValues, c \in CurrentValues},
             MaxHoldings)

\* The two portfolio formatters, called as tools of a plugin that was started
\* or not.
NextTotals ==
    \/ OnAgentStart
    \/ \E v \in Views : GetPortfolio(v)
    \/ \E v \in Views, b \in BOOLEAN : FormatPortfolioAsMarkdown(v, b)

SpecTotals == InitTask /\ [][NextTotals]_vars

----------------------------------------------------------------------------
(* Properties *)

\* The client is Connected: it holds the handle its transport works with.
Connected(i) ==
    IF clients[i].transport = "sse" THEN clients[i]._client # 0
    ELSE IF clients[i].transport = "stdio" THEN clients[i]._process # 0
    ELSE FALSE

\* The handles that are open; those opened for a client the plugin built.
LiveHandles == {h \in DOMAIN handles : handles[h].live}
PluginHandles == {h \in LiveHandles : clients[handles[h].client].byPlugin}

\* An open handle is reachable when the client it was opened for still refers
\* to it.
Reachable(h) ==
    \/ clients[handles[h].client]._client = h
    \/ clients[handles[h].client]._process = h

\* The positions of `matches` whose analyze_stock call raised.
FailedAnalyses == {failures[k].index : k \in {j \in DOMAIN failures : failures[j].stage = "analyze"}}

\* The tickers of the analysis sections of a report, in order.
AnalysisSections(parts) ==
    LET a == SelectSeq(parts, LAMBDA f : f.kind = "analysis")
    IN  [j \in 1..Len(a) |-> a[j].v]

\* The tickers of `matches` whose analysis did not fail, in input order.
AnalysedTickers ==
    LET all  == [k \in 1..Len(matches) |-> k]
        keep == SelectSeq(all, LAMBDA k : k \notin FailedAnalyses)
    IN  [j \in 1..Len(keep) |-> matches[keep[j]].ticker]

\* The mentions of the task that the dual-currency pattern matches.
DualMentions == {k \in DOMAIN task.mentions :
                    task.mentions[k].eur # <<>> /\ task.mentions[k].usd # <<>>}

\* C1: execute_task_direct raises only when the parsing step itself threw;
\* the failure of a service call of a later stage never reaches the caller
\* (stated for a started direct-mode plugin, where the in-process service
\* exists and the only failures are those of the parsing and of the service).
C1_OnlyParsingIsFatal ==
    (investment_service.present /\ result.kind = "RuntimeError") =>
        /\ ~task.isStr
        /\ \A k \in DOMAIN failures : failures[k].stage = "parse"

\* C2: when neither pattern matches, execute_task_direct returns a report in
\* every plugin state, and the report has the line "Portfolio is empty."
\* when the portfolio is empty.
C2_NoMatchReturnsReport ==
    (pc = "done" /\ task.isStr /\ matches = <<>>) =>
        /\ result.kind = "report"
        /\ investment_service.portfolio = <<>> =>
               \E k \in DOMAIN result.parts :
                   result.parts[k] = Fragment("portfolio", "Portfolio is empty.")

\* C3: the six adapter operations are available in both modes; a plugin built
\* with use_mcp=True sends each call through the client's call_tool, a plugin
\* built with use_mcp=False dispatches it to the in-process service.
C3_AdapterFollowsMode ==
    \A k \in DOMAIN calls :
        /\ use_mcp => calls[k].route = "call_tool"
        /\ ~use_mcp => calls[k].route = "service"

\* C4: when several tickers were extracted and analyze_stock failed for
\* exactly one of them, a report is returned, and its analysis sections are
\* those of all the other extracted tickers and not that of the failing one.
C4_OneFailedAnalysisIsIsolated ==
    (pc = "done" /\ Len(matches) >= 2 /\ Cardinality(FailedAnalyses) = 1) =>
        /\ result.kind = "report"
        /\ AnalysisSections(result.parts) = AnalysedTickers

C4_Witness ==
    /\ pc = "done"
    /\ Len(matches) >= 2
    /\ Cardinality(FailedAnalyses) = 1
    /\ result.kind = "report"
    /\ Len(AnalysisSections(result.parts)) = Len(matches) - 1

\* C5: on a Remote (sse) client that was connected and then disconnected,
\* call_tool fails with NotConnectedError.
C5_CallAfterDisconnectIsNotConnectedError ==
    \A i \in DOMAIN clients :
        (/\ lastOp.op = "call_tool"
         /\ lastOp.client = i
         /\ clients[i].transport = "sse"
         /\ clients[i].disconnected
         /\ ~Connected(i))
            => lastOp.outcome = "NotConnectedError"

\* C6: for both transports, call_tool and list_tools return a result only on
\* a Connected client, and fail with NotConnectedError on any other.
C6_CallsNeedConnected ==
    \A i \in DOMAIN clients :
        (lastOp.op \in {"call_tool", "list_tools"} /\ lastOp.client = i) =>
            /\ lastOp.outcome = "result" => Connected(i)
            /\ ~Connected(i) => lastOp.outcome = "NotConnectedError"

\* C7 as stated: a client that has been disconnected is never Connected again.
C7_NeverConnectedAgain ==
    \A i \in DOMAIN clients : clients[i].disconnected => ~Connected(i)

\* C7 as amended: disconnect() leaves the client not Connected, and a client
\* that is not Connected becomes Connected only by a successful connect() on
\* that same instance, which also reconnects a disconnected one in place.
C7_ConnectedOnlyByConnect ==
    [][\A i \in DOMAIN clients :
          /\ (lastOp'.op \in {"disconnect", "on_agent_stop"} /\ lastOp'.client = i
                 /\ lastOp' # lastOp)
                => ~Connected(i)'
          /\ (~Connected(i) /\ Connected(i)')
                => (lastOp'.op = "connect" /\ lastOp'.client = i
                       /\ lastOp'.outcome = "ok")]_vars

C7_Witness ==
    \E i \in DOMAIN clients :
        /\ clients[i].disconnected
        /\ Connected(i)
        /\ lastOp.op = "connect"
        /\ lastOp.client = i

\* C8: at most one connection handle opened for the plugin is live, and every
\* live handle is reachable from the client it was opened for (stated for the
\* behaviours in which connect() ran at most once on every client, as its
\* contract asks).
C8_AtMostOneLiveHandle ==
    (\A i \in DOMAIN clients :
        Cardinality({h \in DOMAIN handles : handles[h].client = i}) <= 1) =>
        /\ Cardinality(PluginHandles) <= 1
        /\ \A h \in PluginHandles : Reachable(h)

\* C9: disconnect() and on_agent_stop never fail; on a client that holds no
\* handle (never connected, or already disconnected) disconnect() changes
\* nothing, so that a second call in a row has no further effect; after it
\* the client holds no handle; on_agent_stop on a plugin without a client
\* changes nothing.
C9_DisconnectIsSafe ==
    [][/\ lastOp'.op \in {"disconnect", "on_agent_stop"} => lastOp'.outcome = "ok"
       /\ \A i \in DOMAIN clients :
             (lastOp'.op = "disconnect" /\ lastOp'.client = i) =>
                 /\ clients'[i]._client = 0
                 /\ clients'[i]._process = 0
                 /\ (clients[i]._client = 0 /\ clients[i]._process = 0) =>
                        /\ clients' = clients
                        /\ handles' = handles
                 /\ ~clients[i].disconnected /\ ~Connected(i) =>
                        \A h \in DOMAIN handles' :
                            handles'[h].client = i => ~handles'[h].live
       /\ (lastOp'.op = "on_agent_stop" /\ plugin_client = 0) =>
              /\ lastOp'.client = 0
              /\ UNCHANGED <<clients, handles, plugin_client, investment_service>>]_vars

C9_Witness ==
    /\ lastOp.op = "disconnect"
    /\ lastOp.outcome = "ok"
    /\ clients[lastOp.client].transport = "stdio"
    /\ ~clients[lastOp.client].disconnected
    /\ \A h \in DOMAIN handles : handles[h].client # lastOp.client

\* C10: when the dual-currency pattern matches somewhere in the task, the
\* fallback pattern is not applied and every candidate comes from a
\* dual-currency mention with its dollar amount as price; the fallback is
\* applied exactly when the first pattern matches nowhere.
C10_FirstMatchWins ==
    (pc # "idle" /\ task.isStr) =>
        /\ fallback_applied <=> DualMentions = {}
        /\ DualMentions # {} =>
               /\ Len(matches) = Cardinality(DualMentions)
               /\ \A j \in DOMAIN matches :
                      \E k \in DualMentions :
                          /\ matches[j].ticker = task.mentions[k].ticker
                          /\ matches[j].shares = task.mentions[k].shares
                          /\ matches[j].price = task.mentions[k].usd

C10_Witness ==
    /\ pc = "done"
    /\ result.kind = "report"
    /\ ~fallback_applied
    /\ DualMentions # {}
    /\ \E k \in DOMAIN task.mentions :
           task.mentions[k].eur # <<>> /\ task.mentions[k].usd = <<>>
    /\ Len(matches) < Len(task.mentions)

\* The tickers of the calls of one adapter operation, in the order issued.
TickersOf(op) ==
    LET c == SelectSeq(calls, LAMBDA x : x.op = op)
    IN  [j \in 1..Len(c) |-> c[j].ticker]

\* The tickers of `matches`, in input order.
MatchTickers == [j \in 1..Len(matches) |-> matches[j].ticker]

\* The tickers of the candidates whose shares and price texts are numbers.
ParsedTickers ==
    LET all  == [k \in 1..Len(matches) |-> k]
        keep == SelectSeq(all, LAMBDA k : Float(matches[k].shares) # ValueError
                                          /\ Float(matches[k].price) # ValueError)
    IN  [j \in 1..Len(keep) |-> matches[keep[j]].ticker]

\* C11: when execute_task_direct has ended, add_to_portfolio was attempted
\* once for every extracted candidate and analyze_stock once for its ticker,
\* whichever adds failed (stated for a started direct-mode plugin and, for the
\* adds, for the candidates whose numbers parse).
C11_EveryCandidateAddedAndAnalysed ==
    (pc = "done" /\ task.isStr /\ investment_service.present) =>
        /\ TickersOf("add_to_portfolio") = ParsedTickers
        /\ TickersOf("analyze_stock") = MatchTickers

\* The position of a fragment in the fixed stage order.
StageRank(f) ==
    CASE f.kind = "title" -> 1
      [] f.kind = "timestamp" -> 2
      [] f.kind = "heading" /\ f.v = "## Current Portfolio" -> 3
      [] f.kind = "portfolio" -> 4
      [] f.kind = "heading" /\ f.v = "## Individual Stock Analysis" -> 5
      [] f.kind = "analysis" -> 6
      [] f.kind = "heading" /\ f.v = "## Sell Recommendations" -> 7
      [] f.kind = "sell" -> 8
      [] f.kind = "heading" /\ f.v = "## Buy Opportunities" -> 9
      [] f.kind = "buy" -> 10
      [] f.kind = "heading" /\ f.v = "## Portfolio Summary" -> 11
      [] f.kind = "summary" -> 12
      [] OTHER -> 0

\* The fragments that are not separators.
NonSep(parts) == SelectSeq(parts, LAMBDA f : f.kind # "sep")

\* The positions of `matches` whose should_sell call raised.
FailedSells == {failures[k].index : k \in {j \in DOMAIN failures : failures[j].stage = "sell"}}

\* The tickers of the sell sections of a report, in order.
SellSections(parts) ==
    LET a == SelectSeq(parts, LAMBDA f : f.kind = "sell")
    IN  [j \in 1..Len(a) |-> a[j].v]

\* The tickers of `matches` whose sell check did not fail, in input order.
SellCheckedTickers ==
    LET all  == [k \in 1..Len(matches) |-> k]
        keep == SelectSeq(all, LAMBDA k : k \notin FailedSells)
    IN  [j \in 1..Len(keep) |-> matches[keep[j]].ticker]

\* C12: the fragments are appended in the fixed stage order (title, snapshot,
\* analyses, sell checks, buy opportunities, summary), and in a returned
\* report the analysis sections and the sell sections are those of the
\* tickers whose call succeeded, in the order of the input.
C12_FragmentsInStageOrder ==
    /\ LET p == NonSep(report_parts)
       IN  \A a, b \in DOMAIN p : a < b => StageRank(p[a]) <= StageRank(p[b])
    /\ result.kind = "report" =>
           /\ AnalysisSections(result.parts) = AnalysedTickers
           /\ SellSections(result.parts) = SellCheckedTickers

C12_Witness ==
    /\ result.kind = "report"
    /\ Len(matches) = 2
    /\ matches[1].ticker # matches[2].ticker
    /\ AnalysisSections(result.parts) = MatchTickers
    /\ FailedSells = {1}
    /\ SellSections(result.parts) = <<matches[2].ticker>>

\* C13: every holding passed to add_to_portfolio has a share count and a
\* price strictly greater than zero (its ticker is the third group of the
\* pattern, [A-Z]+); a candidate whose shares or price text is not a positive
\* number is not passed on.
C13_OnlyPositiveHoldingsAdded ==
    \A k \in DOMAIN calls :
        (calls[k].op = "add_to_portfolio" /\ calls[k].route = "service") =>
            /\ calls[k].shares > 0
            /\ calls[k].price > 0

\* C14: a call_tool or list_tools call on a Connected Remote (sse) client
\* sends exactly one HTTP request and ends in the outcome of that request; a
\* non-2xx answer is the error the caller gets, and no call ever sends a
\* second request.
C14_OneRequestNoRetry ==
    /\ lastOp.requests <= 1
    /\ lastOp.outcome = "HTTPStatusError" => lastOp.requests = 1
    /\ \A i \in DOMAIN clients :
           (/\ lastOp.op \in {"call_tool", "list_tools"}
            /\ lastOp.client = i
            /\ clients[i].transport = "sse"
            /\ Connected(i))
               => /\ lastOp.requests = 1
                  /\ lastOp.outcome \in HttpOutcomes

C14_Witness ==
    /\ lastOp.op = "call_tool"
    /\ lastOp.outcome = "HTTPStatusError"
    /\ lastOp.requests = 1
    /\ clients[lastOp.client].transport = "sse"

\* The stages at which a logged exception was raised.
FailedStages == {failures[k].stage : k \in DOMAIN failures}

\* The stage ranks of the fragments of a report, separators left out.
RanksOf(parts) ==
    LET p == NonSep(parts)
    IN  [j \in 1..Len(p) |-> StageRank(p[j])]

PrefixSum(view, which, k) ==
    LET S[n \in 0..Len(view)] ==
            IF n = 0 THEN 0
            ELSE S[n - 1] + (IF which = 1 THEN view[n].current_value
                                          ELSE view[n].purchase_value)
    IN  S[k]

\* C16: the totals a portfolio formatter prints are the sums over the
\* holdings: total value = sum of current values, total cost = sum of
\* purchase values, total profit/loss = their difference; the percentage is
\* 0 whenever the total cost is 0; for purchase values 1500 and 1500 and
\* current values 1800 and 1200 the profit/loss is 0 and the percentage 0.00.
C16_TotalsAreSums ==
    formatted.status = "ok" =>
        LET v   == formatted.view
            cur == PrefixSum(v, 1, Len(v))
            pur == PrefixSum(v, 2, Len(v))
        IN  /\ formatted.total_value = cur
            /\ formatted.total_cost = pur
            /\ formatted.total_pl = cur - pur
            /\ pur = 0 => formatted.total_pl_pct = 0
            /\ (pur = 3000 /\ cur = 3000) =>
                   formatted.total_pl = 0 /\ formatted.total_pl_pct = 0

C16_Witness ==
    /\ formatted.op = "get_portfolio"
    /\ formatted.status = "ok"
    /\ Len(formatted.view) = 2
    /\ formatted.view[1].purchase_value = 1500
    /\ formatted.view[2].purchase_value = 1500
    /\ formatted.view[1].current_value = 1800
    /\ formatted.view[2].current_value = 1200
    /\ formatted.total_pl = 0
    /\ formatted.total_pl_pct = 0

\* The stage of execute_task_direct an adapter call belongs to.
CallStage(op) ==
    CASE op = "add_to_portfolio" -> 1
      [] op = "get_portfolio" -> 2
      [] op = "analyze_stock" -> 3
      [] op = "should_sell" -> 4
      [] op = "find_buy_opportunities" -> 5
      [] op = "generate_portfolio_report" -> 6
      [] OTHER -> 0

\* The number of calls of one adapter operation.
CallCount(op) == Len(SelectSeq(calls, LAMBDA x : x.op = op))

\* C17: within one execute_task_direct call the adapter calls are issued
\* stage by stage, each awaited before the next is issued: all
\* add_to_portfolio calls, then the single get_portfolio call, then the
\* analyze_stock calls, then the should_sell calls, then one
\* find_buy_opportunities call, then one generate_portfolio_report call.  A
\* call that returns a report issued exactly one call of each of the three
\* single stages and one analysis and one sell check per candidate, in input
\* order; a call that ended in an error issued no call after the failing one.
C17_CallsStageByStage ==
    /\ \A a, b \in DOMAIN calls :
           a < b => CallStage(calls[a].op) <= CallStage(calls[b].op)
    /\ \A k \in DOMAIN calls : CallStage(calls[k].op) # 0
    /\ CallCount("get_portfolio") <= 1
    /\ CallCount("find_buy_opportunities") <= 1
    /\ CallCount("generate_portfolio_report") <= 1
    /\ pc \in {"analyze", "sell_heading", "sell", "buy", "summary"} =>
           /\ CallCount("add_to_portfolio") <= Len(matches)
           /\ CallCount("get_portfolio") = 1
    /\ pc \in {"sell", "buy", "summary"} =>
           TickersOf("analyze_stock") = MatchTickers
    /\ pc = "sell" => Len(TickersOf("should_sell")) = idx - 1
    /\ result.kind = "report" =>
           /\ CallCount("get_portfolio") = 1
           /\ TickersOf("analyze_stock") = MatchTickers
           /\ TickersOf("should_sell") = MatchTickers
           /\ CallCount("find_buy_opportunities") = 1
           /\ CallCount("generate_portfolio_report") = 1
    /\ (result.kind = "RuntimeError" /\ calls # <<>>) =>
           /\ calls[Len(calls)].op = "get_portfolio"
           /\ FailedStages \subseteq {"add", "snapshot"}

C17_Witness ==
    /\ result.kind = "report"
    /\ Len(matches) = 2
    /\ CallCount("add_to_portfolio") = 2
    /\ "add" \in FailedStages
    /\ "analyze" \in FailedStages
    /\ [k \in DOMAIN calls |-> CallStage(calls[k].op)] = <<1, 1, 2, 3, 3, 4, 4, 5, 6>>

\* The headings of a report, in order.
Headings(parts) ==
    LET h == SelectSeq(parts, LAMBDA f : f.kind = "heading")
    IN  [j \in 1..Len(h) |-> h[j].v]

\* C18: every returned report starts with the title and the timestamp and
\* has the headings "## Current Portfolio", "## Individual Stock Analysis"
\* and "## Sell Recommendations" once each, in that order, whatever was
\* extracted and whichever per-ticker calls failed; "## Buy Opportunities"
\* follows iff the find_buy_opportunities call succeeded and
\* "## Portfolio Summary" iff the generate_portfolio_report call succeeded.
C18_ReportHeadings ==
    result.kind = "report" =>
        /\ Len(result.parts) >= 2
        /\ result.parts[1].kind = "title"
        /\ result.parts[2].kind = "timestamp"
        /\ Headings(result.parts) =
               <<"## Current Portfolio", "## Individual Stock Analysis",
                 "## Sell Recommendations">>
               \o (IF "buy" \in FailedStages THEN <<>> ELSE <<"## Buy Opportunities">>)
               \o (IF "summary" \in FailedStages THEN <<>> ELSE <<"## Portfolio Summary">>)

C18_Witness ==
    /\ result.kind = "report"
    /\ Len(matches) = 2
    /\ FailedStages = {"analyze", "sell", "buy"}
    /\ Headings(result.parts) =
           <<"## Current Portfolio", "## Individual Stock Analysis",
             "## Sell Recommendations", "## Portfolio Summary">>

====
